---- MODULE Spec2Model ----
(***************************************************************************)
(* Model of the mock backend of chat-message-react                         *)
(* (src/services/mockBackend.ts): the localStorage-backed store, the       *)
(* command layer and the setTimeout-driven event bus.                      *)
(*                                                                         *)
(* Ids built by the template `${prefix}${Date.now()}` are modelled as the  *)
(* pair <<prefix, n>>; a seeded id such as 'u1' is <<"u", 1>>.             *)
(* A JS object is a TLA+ record (a function over its own keys); the value  *)
(* `undefined` of an optional string field is the marker Undefined.        *)
(***************************************************************************)
EXTENDS Integers, Sequences, FiniteSets, TLC

VARIABLES storage, clock, timers, listeners, received, uncaught, ret, nCalls,
          view

vars == <<storage, clock, timers, listeners, received, uncaught, ret, nCalls,
          view>>

(***************************************************************************)
(* Bounds of the model                                                     *)
(***************************************************************************)
MaxCalls == 2
MaxTicks == 1
MaxReads == 1
MaxJoins == 3

(***************************************************************************)
(* Values                                                                   *)
(***************************************************************************)
Undefined == "undefined"

Id(prefix, n) == <<prefix, n>>

SystemId == <<"system", 0>>

\* the string-valued fields of User, Room and Message that may hold undefined
StringFields == {"name", "email", "password", "avatar", "bio", "description",
                 "content", "senderName", "senderAvatar", "type"}

\* obj[f] of JavaScript: undefined when the key is absent
Get(obj, f) == IF f \in DOMAIN obj THEN obj[f] ELSE Undefined

\* { ...base, ...over }
Spread(base, over) ==
  [f \in (DOMAIN base) \cup (DOMAIN over) |->
      IF f \in DOMAIN over THEN over[f] ELSE base[f]]

\* JSON.parse(JSON.stringify(obj)) of one object: keys whose value is
\* undefined are dropped
JsonObject(obj) ==
  LET kept == {f \in DOMAIN obj : f \in StringFields => obj[f] # Undefined}
  IN  [f \in kept |-> obj[f]]

\* JSON.parse(JSON.stringify(array))
Json(data) == [i \in 1..Len(data) |-> JsonObject(data[i])]

INITIAL_USERS ==
  << [id |-> Id("u", 1), name |-> "Alice Test", email |-> "user1@test.com",
      password |-> "password123", avatar |-> "seed/u1", isOnline |-> FALSE,
      bio |-> "Love coding!"],
     [id |-> Id("u", 2), name |-> "Bob Test", email |-> "user2@test.com",
      password |-> "password123", avatar |-> "seed/u2", isOnline |-> FALSE,
      bio |-> "Python enthusiast"],
     [id |-> Id("u", 3), name |-> "Charlie Test", email |-> "user3@test.com",
      password |-> "password123", avatar |-> "seed/u3", isOnline |-> FALSE],
     [id |-> Id("u", 4), name |-> "Dave Test", email |-> "user4@test.com",
      password |-> "password123", avatar |-> "seed/u4", isOnline |-> FALSE],
     [id |-> Id("u", 5), name |-> "Eve Test", email |-> "user5@test.com",
      password |-> "password123", avatar |-> "seed/u5", isOnline |-> FALSE] >>

INITIAL_ROOMS ==
  << [id |-> Id("r", 1), name |-> "General Lobby", isPrivate |-> FALSE,
      createdBy |-> SystemId, description |-> "Welcome everyone!"],
     [id |-> Id("r", 2), name |-> "Python Devs", isPrivate |-> FALSE,
      createdBy |-> SystemId, description |-> "Talk about FastAPI"],
     [id |-> Id("r", 3), name |-> "Secret Club", isPrivate |-> TRUE,
      password |-> "123", createdBy |-> Id("u", 1),
      description |-> "Shhh... Password is 123"] >>

INITIAL_MESSAGES == <<>>

\* Date.now() of the first modelled instant: later than every seeded id
StartTime == Len(INITIAL_USERS) + 1

\* setTimeout delays of the command latency and of broadcast
LatencyMs == 500
BroadcastDelayMs == 100

(***************************************************************************)
(* Persisted store: localStorage, one item per key; <<>> is "no item",     *)
(* <<v>> an item whose parsed JSON is v, RawItem(text) an item whose text  *)
(* is not JSON                                                             *)
(***************************************************************************)
Keys == {"chat_users", "chat_rooms", "chat_messages"}

RawItem(text) == <<"raw", text>>

\* JSON.parse accepting every text
parseThrowsNever(st, key) == FALSE

\* if (stored) return JSON.parse(stored): the item is a text other than the
\* empty string, and JSON.parse throws SyntaxError on it
parseThrows(st, key) == Len(st[key]) = 2 /\ st[key][2] # ""

\* getStorage finding no item, whatever was saved
parsedNever(st, key) == FALSE

\* getStorage returns what JSON.parse returned
parsed(st, key) == Len(st[key]) = 1

\* getStorage that never finds an item
getStorageSeedOnly(st, key, init) == init

\* the value getStorage(key, init) returns: the parsed item, or init when
\* there is no item or its text is empty
getStorage(st, key, init) == IF parsed(st, key) THEN st[key][1] ELSE init

\* localStorage after getStorage(key, init) has returned
getStorageEffect(st, key, init) ==
  IF parsed(st, key) THEN st ELSE [st EXCEPT ![key] = <<Json(init)>>]

\* setStorage that writes nothing
setStorageDropped(st, key, data) == st

\* localStorage after setStorage(key, data)
setStorage(st, key, data) == [st EXCEPT ![key] = <<Json(data)>>]

\* the three collections as the command layer reads them
Users == getStorage(storage, "chat_users", INITIAL_USERS)
Rooms == getStorage(storage, "chat_rooms", INITIAL_ROOMS)
Messages == getStorage(storage, "chat_messages", INITIAL_MESSAGES)

(***************************************************************************)
(* Array helpers                                                           *)
(***************************************************************************)
\* the array without its i-th element
RemoveAt(s, i) == [j \in 1..(Len(s)-1) |-> IF j < i THEN s[j] ELSE s[j+1]]

(***************************************************************************)
(* Event bus                                                               *)
(***************************************************************************)
Handlers == {"h1"}

\* the callbacks that can be passed to subscribeToSocket
BusHandlers == {"h1", "h2"}

\* the callback ChatApp passes to subscribeToSocket
ChatAppHandler == "chatApp"

\* no callback threw
NoThrow == "none"

\* the listeners of the moment a call settled are not recorded
Untracked == <<"untracked">>

Event(type, payload) == [type |-> type, payload |-> payload]

BroadcastTimer(type, payload) ==
  [kind |-> "broadcast", delay |-> BroadcastDelayMs, event |-> Event(type, payload)]

LatencyTimer(op, args) ==
  [kind |-> "latency", delay |-> LatencyMs, op |-> op, args |-> args]

\* timers that run in any order
CanFireAny(i) == i \in 1..Len(timers)

\* setTimeout ordering: a timer runs once no timer started before it with an
\* equal or shorter delay is still pending
CanFire(i) ==
  /\ i \in 1..Len(timers)
  /\ \A j \in 1..(i-1) : timers[j].delay > timers[i].delay

\* listeners.add(callback): a Set keeps insertion order and no duplicates
subscribeToSocket(ls, h) ==
  IF \E i \in 1..Len(ls) : ls[i] = h THEN ls ELSE Append(ls, h)

\* an unsubscribe function that deletes nothing
unsubscribeNothing(ls, h) == ls

\* listeners.delete(callback): the function subscribeToSocket returns
unsubscribe(ls, h) == SelectSeq(ls, LAMBDA l : l # h)

\* forEach over every callback ever passed to subscribeToSocket
invokedEvery(ls, thrower) == BusHandlers

\* the callbacks listeners.forEach runs, in insertion order: an exception of
\* a callback leaves forEach, so the callbacks after the thrower do not run
invoked(ls, thrower) ==
  LET at == {i \in 1..Len(ls) : ls[i] = thrower}
      last == IF at = {} THEN Len(ls) ELSE CHOOSE i \in at : TRUE
  IN  {ls[i] : i \in 1..last}

\* listeners.forEach(l => l({ type, payload }))
deliver(rcv, ls, ev, thrower) ==
  [h \in DOMAIN rcv |->
     IF h \in invoked(ls, thrower) THEN Append(rcv[h], ev) ELSE rcv[h]]

(***************************************************************************)
(* ChatApp: the state of the component and its socket callback             *)
(***************************************************************************)
\* null where an id is expected, and where a Room is expected
Null == <<"null", 0>>
NoRoom == [id |-> Null]

\* the useState and useRef initial values; currentUser is the prop
InitialView(currentUser) ==
  [mounted |-> FALSE, currentUser |-> currentUser,
   rooms |-> <<>>, users |-> <<>>, activeRoomId |-> Null, messages |-> <<>>,
   showPasswordModal |-> FALSE, pendingRoom |-> NoRoom, joinPassword |-> "",
   joinError |-> "", activeRoomIdRef |-> Null]

\* the callback without the setActiveRoomId(null) of ROOM_DELETED
handleEventKeepsRoom(v, ev) ==
  LET currentRoomId == v.activeRoomIdRef
  IN  CASE ev.type = "NEW_MESSAGE" ->
             IF ev.payload.roomId = currentRoomId
             THEN [v EXCEPT !.messages = Append(@, ev.payload)]
             ELSE v
        [] ev.type = "ROOM_CREATED" ->
             [v EXCEPT !.rooms = Append(@, ev.payload)]
        [] ev.type = "ROOM_DELETED" ->
             [v EXCEPT
                !.rooms = SelectSeq(@, LAMBDA r : r.id # ev.payload.roomId)]
        [] ev.type = "USER_UPDATE" ->
             [v EXCEPT !.users = [j \in 1..Len(@) |->
                                    IF @[j].id = ev.payload.id
                                    THEN ev.payload ELSE @[j]]]
        [] ev.type = "USER_JOINED" ->
             IF \E j \in 1..Len(v.users) : v.users[j].id = ev.payload.id
             THEN v
             ELSE [v EXCEPT !.users = Append(@, ev.payload)]
        [] ev.type = "USER_LEFT" ->
             [v EXCEPT !.users = [j \in 1..Len(@) |->
                                    IF @[j].id = ev.payload.userId
                                    THEN Spread(@[j], [isOnline |-> FALSE])
                                    ELSE @[j]]]

\* the callback of subscribeToSocket: one case per event type, the current
\* room read from activeRoomIdRef
handleEvent(v, ev) ==
  LET currentRoomId == v.activeRoomIdRef
  IN  CASE ev.type = "NEW_MESSAGE" ->
             IF ev.payload.roomId = currentRoomId
             THEN [v EXCEPT !.messages = Append(@, ev.payload)]
             ELSE v
        [] ev.type = "ROOM_CREATED" ->
             [v EXCEPT !.rooms = Append(@, ev.payload)]
        [] ev.type = "ROOM_DELETED" ->
             [v EXCEPT
                !.rooms = SelectSeq(@, LAMBDA r : r.id # ev.payload.roomId),
                !.activeRoomId = IF currentRoomId = ev.payload.roomId
                                 THEN Null ELSE @]
        [] ev.type = "USER_UPDATE" ->
             [v EXCEPT !.users = [j \in 1..Len(@) |->
                                    IF @[j].id = ev.payload.id
                                    THEN ev.payload ELSE @[j]]]
        [] ev.type = "USER_JOINED" ->
             IF \E j \in 1..Len(v.users) : v.users[j].id = ev.payload.id
             THEN v
             ELSE [v EXCEPT !.users = Append(@, ev.payload)]
        [] ev.type = "USER_LEFT" ->
             [v EXCEPT !.users = [j \in 1..Len(@) |->
                                    IF @[j].id = ev.payload.userId
                                    THEN Spread(@[j], [isOnline |-> FALSE])
                                    ELSE @[j]]]

\* App renders ChatApp without onUserUpdate, so the call of it in the
\* USER_UPDATE case throws
handlerThrows(v, ev) ==
  ev.type = "USER_UPDATE" /\ ev.payload.id = v.currentUser.id

\* handleJoinRoom asking every room for its password
needsPasswordAlways(room) == TRUE

\* if (room.isPrivate)
needsPassword(room) == room.isPrivate

\* handleJoinPrivateSubmit accepting whatever was typed
passwordMatchesAny(joinPassword, room) == TRUE

\* joinPassword === pendingRoom.password
passwordMatches(joinPassword, room) == joinPassword = Get(room, "password")

\* executeJoinRoom without setMessages
executeJoinRoomKeepsMessages(v, roomId, msgs) ==
  [v EXCEPT !.activeRoomId = roomId, !.activeRoomIdRef = roomId]

\* setActiveRoomId(roomId), then setMessages of what getMessages returned;
\* the effect copies activeRoomId into the ref
executeJoinRoom(v, roomId, msgs) ==
  [v EXCEPT !.activeRoomId = roomId, !.activeRoomIdRef = roomId,
            !.messages = msgs]

closePasswordModal(v) ==
  [v EXCEPT !.showPasswordModal = FALSE, !.pendingRoom = NoRoom,
            !.joinPassword = "", !.joinError = ""]

(***************************************************************************)
(* Command layer: the body of each command as a function of the collection *)
(* it loaded.  An outcome tells whether setStorage was reached and with    *)
(* which array, the broadcast calls made, and how the promise settled.     *)
(***************************************************************************)
Outcome(wrote, data, events, result, value) ==
  [wrote |-> wrote, data |-> data, events |-> events,
   result |-> result, value |-> value]

\* loginMatches with the credential comparison lost
loginMatchesEmailOnly(u, email, password) == Get(u, "email") = email

\* u.email === email && u.password === password
loginMatches(u, email, password) ==
  Get(u, "email") = email /\ Get(u, "password") = password

login(users, email, password) ==
  LET hits == {j \in 1..Len(users) : loginMatches(users[j], email, password)}
      \* users.find: the first match
      i == IF hits = {} THEN 0 ELSE CHOOSE j \in hits : \A k \in hits : j <= k
  IN  IF i = 0
      THEN Outcome(FALSE, users, <<>>, "Invalid credentials", Undefined)
      ELSE LET user == [users[i] EXCEPT !.isOnline = TRUE]
               updatedUsers == [j \in 1..Len(users) |->
                                  IF users[j].id = user.id THEN user ELSE users[j]]
           IN  Outcome(TRUE, updatedUsers, <<Event("USER_UPDATE", user)>>,
                       "ok", user)

\* emailExists looking at the newest user only
emailExistsLastOnly(users, email) ==
  Len(users) > 0 /\ Get(users[Len(users)], "email") = email

\* users.find(u => u.email === email)
emailExists(users, email) == \E i \in 1..Len(users) : Get(users[i], "email") = email

\* register with name and password swapped in the new record
registerSwapped(users, name, email, password, now1, now2) ==
  IF \E i \in 1..Len(users) : Get(users[i], "email") = email
  THEN Outcome(FALSE, users, <<>>, "Email already exists", Undefined)
  ELSE LET newUser == [id |-> Id("u", now1), name |-> password, email |-> email,
                       password |-> name, avatar |-> <<"seed", now2>>,
                       isOnline |-> TRUE]
       IN  Outcome(TRUE, Append(users, newUser),
                   <<Event("USER_JOINED", newUser)>>, "ok", newUser)

register(users, name, email, password, now1, now2) ==
  IF emailExists(users, email)
  THEN Outcome(FALSE, users, <<>>, "Email already exists", Undefined)
  ELSE LET newUser == [id |-> Id("u", now1), name |-> name, email |-> email,
                       password |-> password, avatar |-> <<"seed", now2>>,
                       isOnline |-> TRUE]
       IN  Outcome(TRUE, Append(users, newUser),
                   <<Event("USER_JOINED", newUser)>>, "ok", newUser)

\* logout that saves the users as they were
logoutKeepsFlag(users, userId) ==
  Outcome(TRUE, users, <<Event("USER_LEFT", [userId |-> userId])>>,
          "ok", Undefined)

logout(users, userId) ==
  LET updatedUsers == [j \in 1..Len(users) |->
                         IF users[j].id = userId
                         THEN Spread(users[j], [isOnline |-> FALSE])
                         ELSE users[j]]
  IN  Outcome(TRUE, updatedUsers, <<Event("USER_LEFT", [userId |-> userId])>>,
              "ok", Undefined)

\* updateProfileEvents without the test of updatedUser
updateProfileEventsAlways(found, updatedUser) ==
  <<Event("USER_UPDATE", updatedUser)>>

\* if (updatedUser) broadcast('USER_UPDATE', updatedUser)
updateProfileEvents(found, updatedUser) ==
  IF found THEN <<Event("USER_UPDATE", updatedUser)>> ELSE <<>>

\* updateProfile replacing the record by the updates
updateProfileOverwrite(users, userId, updates) ==
  LET newUsers == [j \in 1..Len(users) |->
                     IF users[j].id = userId
                     THEN Spread([id |-> userId], updates)
                     ELSE users[j]]
      hits == {j \in 1..Len(users) : users[j].id = userId}
      found == hits # {}
      last == CHOOSE j \in hits : \A k \in hits : k <= j
      updatedUser == IF found THEN newUsers[last] ELSE Undefined
  IN  Outcome(TRUE, newUsers, updateProfileEvents(found, updatedUser),
              "ok", updatedUser)

updateProfile(users, userId, updates) ==
  LET newUsers == [j \in 1..Len(users) |->
                     IF users[j].id = userId
                     THEN Spread(users[j], updates)
                     ELSE users[j]]
      hits == {j \in 1..Len(users) : users[j].id = userId}
      found == hits # {}
      \* the variable keeps the object of the last matching element
      last == CHOOSE j \in hits : \A k \in hits : k <= j
      updatedUser == IF found THEN newUsers[last] ELSE Undefined
  IN  Outcome(TRUE, newUsers, updateProfileEvents(found, updatedUser),
              "ok", updatedUser)

createRoom(rooms, room, now) ==
  LET newRoom == Spread(room, [id |-> Id("r", now)])
  IN  Outcome(TRUE, Append(rooms, newRoom),
              <<Event("ROOM_CREATED", newRoom)>>, "ok", newRoom)

deleteRoom(rooms, roomId) ==
  LET updatedRooms == SelectSeq(rooms, LAMBDA r : r.id # roomId)
  IN  Outcome(TRUE, updatedRooms,
              <<Event("ROOM_DELETED", [roomId |-> roomId])>>, "ok", Undefined)

\* getMessages without the filter
getMessagesAll(allMessages, roomId) == allMessages

\* allMessages.filter(m => m.roomId === roomId)
getMessages(allMessages, roomId) ==
  SelectSeq(allMessages, LAMBDA m : m.roomId = roomId)

\* sendMessage saving the new message alone
sendMessageAlone(allMessages, message, now1, now2) ==
  LET newMessage == Spread(message, [id |-> Id("m", now1), timestamp |-> now2])
  IN  Outcome(TRUE, <<newMessage>>,
              <<Event("NEW_MESSAGE", newMessage)>>, "ok", newMessage)

sendMessage(allMessages, message, now1, now2) ==
  LET newMessage == Spread(message, [id |-> Id("m", now1), timestamp |-> now2])
  IN  Outcome(TRUE, Append(allMessages, newMessage),
              <<Event("NEW_MESSAGE", newMessage)>>, "ok", newMessage)

(***************************************************************************)
(* Inputs of the commands                                                  *)
(***************************************************************************)
EmailInputs == {"user1@test.com", "new@test.com"}
PasswordInputs == {"password123", "wrong"}
NewPasswordInputs == {"password123"}
NameInputs == {"Neo"}
UserIdInputs == {Id("u", 1), Id("u", 0)}
RequesterInputs == {Id("u", 1), Id("u", 2)}

\* UserProfileModal.handleSave sends name and avatar, and password when
\* typed; Partial<User> admits every field
UpdateInputs ==
  { [name |-> "Neo", avatar |-> "webp", password |-> "wrong"],
    [email |-> "user2@test.com"] }

\* ChatApp.createRoom: password is undefined unless the room is private
RoomInputs ==
  { [name |-> "Room", isPrivate |-> p[1], password |-> p[2],
     createdBy |-> Id("u", 1), description |-> "New custom room"] :
    p \in {<<FALSE, Undefined>>, <<TRUE, "x">>, <<TRUE, "">>} }

RoomIdInputs ==
  {Id("r", 3), Id("r", 0)} \cup
  {Rooms[i].id : i \in {j \in 1..Len(Rooms) : Rooms[j].id[2] >= StartTime}}

\* ChatApp.handleSendMessage: the sender snapshot and a text content; a
\* stored room with a text, a stored room with no text, no stored room
MessageInputs ==
  { [roomId |-> p[1], senderId |-> Id("u", 1), senderName |-> "Alice Test",
     senderAvatar |-> "seed/u1", content |-> p[2], type |-> "text"] :
    p \in {<<Id("r", 3), "hi">>, <<Id("r", 3), "">>, <<Id("r", 0), "hi">>} }

\* a room with messages, a room without, an id of no room
ReadRoomInputs == {Id("r", 3), Id("r", 1), Id("r", 0)}

\* Date.now() never goes back: a read returns the value of the previous
\* read (kept in clock) or a later one, up to the end of the modelled time
MaxTime == StartTime + MaxTicks
Now(after) == after..MaxTime

(***************************************************************************)
(* State machine                                                           *)
(***************************************************************************)
Init ==
  /\ storage = [k \in Keys |-> <<>>]
  /\ clock = StartTime
  /\ timers = <<>>
  /\ listeners = <<>>
  /\ received = [h \in BusHandlers |-> <<>>]
  /\ uncaught = NoThrow
  /\ ret = [n |-> 0, op |-> "none", args |-> <<>>, result |-> "none",
            value |-> Undefined, events |-> <<>>, subscribed |-> Untracked]
  /\ nCalls = 0
  /\ view = InitialView([id |-> Null])

\* broadcast(type, payload) for each event of the outcome
broadcast(tms, events) ==
  tms \o [k \in 1..Len(events) |->
           BroadcastTimer(events[k].type, events[k].payload)]

\* a command body runs to completion on the collection under `key`; ret
\* keeps how the call settled and, in the specifications whose properties
\* read it, the listeners of that moment.  When JSON.parse throws inside
\* getStorage the body ends there and the promise rejects with the error
Settle(key, init, out, op, args, tms) ==
  IF parseThrows(storage, key)
  THEN /\ storage' = storage
       /\ timers' = tms
       /\ ret' = [n |-> ret.n + 1, op |-> op, args |-> args,
                  result |-> "SyntaxError", value |-> Undefined,
                  events |-> <<>>,
                  subscribed |-> IF ret.subscribed = Untracked
                                 THEN Untracked ELSE listeners]
  ELSE /\ storage' = IF out.wrote
                     THEN setStorage(getStorageEffect(storage, key, init),
                                     key, out.data)
                     ELSE getStorageEffect(storage, key, init)
       /\ timers' = broadcast(tms, out.events)
       /\ ret' = [n |-> ret.n + 1, op |-> op, args |-> args,
                  result |-> out.result, value |-> out.value,
                  events |-> out.events,
                  subscribed |-> IF ret.subscribed = Untracked
                                 THEN Untracked ELSE listeners]

\* await new Promise(r => setTimeout(r, 500))
Await(op, args) ==
  /\ nCalls < MaxCalls
  /\ nCalls' = nCalls + 1
  /\ timers' = Append(timers, LatencyTimer(op, args))
  /\ UNCHANGED <<storage, clock, listeners, received, uncaught, ret, view>>

LoginCall(email, password) ==
  Await("login", [email |-> email, password |-> password])

LoginResume(i) ==
  /\ CanFire(i)
  /\ timers[i].kind = "latency"
  /\ timers[i].op = "login"
  /\ Settle("chat_users", INITIAL_USERS,
            login(Users, timers[i].args.email, timers[i].args.password),
            "login", timers[i].args, RemoveAt(timers, i))
  /\ UNCHANGED <<clock, listeners, received, uncaught, nCalls, view>>

RegisterCall(name, email, password) ==
  Await("register", [name |-> name, email |-> email, password |-> password])

\* the body reads Date.now() twice: for the id, then for the avatar
RegisterResume(i, now1, now2) ==
  /\ CanFire(i)
  /\ timers[i].kind = "latency"
  /\ timers[i].op = "register"
  /\ now1 \in Now(clock)
  /\ now2 \in Now(now1)
  /\ Settle("chat_users", INITIAL_USERS,
            register(Users, timers[i].args.name, timers[i].args.email,
                     timers[i].args.password, now1, now2),
            "register", timers[i].args, RemoveAt(timers, i))
  /\ clock' = now2
  /\ UNCHANGED <<listeners, received, uncaught, nCalls, view>>

\* a command without await: its body runs within the call
Call ==
  /\ nCalls < MaxCalls
  /\ nCalls' = nCalls + 1
  /\ UNCHANGED <<listeners, received, uncaught, view>>

Logout(userId) ==
  /\ Call
  /\ Settle("chat_users", INITIAL_USERS, logout(Users, userId),
            "logout", [userId |-> userId], timers)
  /\ UNCHANGED clock

UpdateProfile(userId, updates) ==
  /\ Call
  /\ Settle("chat_users", INITIAL_USERS, updateProfile(Users, userId, updates),
            "updateProfile", [userId |-> userId, updates |-> updates], timers)
  /\ UNCHANGED clock

CreateRoom(room, now) ==
  /\ Call
  /\ now \in Now(clock)
  /\ Settle("chat_rooms", INITIAL_ROOMS, createRoom(Rooms, room, now),
            "createRoom", [room |-> room], timers)
  /\ clock' = now

\* requesterId: the user on whose behalf the call is made; the command
\* takes the room id only
DeleteRoom(roomId, requesterId) ==
  /\ Call
  /\ Settle("chat_rooms", INITIAL_ROOMS, deleteRoom(Rooms, roomId),
            "deleteRoom", [roomId |-> roomId, requesterId |-> requesterId],
            timers)
  /\ UNCHANGED clock

\* the body reads Date.now() twice: for the id, then for the timestamp
SendMessage(message, now1, now2) ==
  /\ Call
  /\ now1 \in Now(clock)
  /\ now2 \in Now(now1)
  /\ Settle("chat_messages", INITIAL_MESSAGES,
            sendMessage(Messages, message, now1, now2),
            "sendMessage", [message |-> message], timers)
  /\ clock' = now2

\* the callback of broadcast's setTimeout; thrower is the first listener
\* whose call throws on this event, NoThrow when every call returns; the
\* exception leaves the timer callback uncaught
Deliver(i, thrower) ==
  /\ CanFire(i)
  /\ timers[i].kind = "broadcast"
  /\ received' = deliver(received, listeners, timers[i].event, thrower)
  /\ uncaught' = thrower
  /\ view' = IF ChatAppHandler \in invoked(listeners, thrower)
             THEN handleEvent(view, timers[i].event)
             ELSE view
  /\ timers' = RemoveAt(timers, i)
  /\ UNCHANGED <<storage, clock, listeners, ret, nCalls>>

Subscribe(h) ==
  /\ \A i \in 1..Len(listeners) : listeners[i] # h
  /\ listeners' = subscribeToSocket(listeners, h)
  /\ UNCHANGED <<storage, clock, timers, received, uncaught, ret, nCalls, view>>

Next ==
  \/ \E e \in EmailInputs, p \in PasswordInputs : LoginCall(e, p)
  \/ \E i \in 1..Len(timers) : LoginResume(i)
  \/ \E n \in NameInputs, e \in EmailInputs, p \in NewPasswordInputs :
        RegisterCall(n, e, p)
  \/ \E i \in 1..Len(timers), t1 \in Now(clock), t2 \in Now(clock) :
        RegisterResume(i, t1, t2)
  \/ \E u \in UserIdInputs : Logout(u)
  \/ \E u \in UserIdInputs, upd \in UpdateInputs : UpdateProfile(u, upd)
  \/ \E room \in RoomInputs, t \in Now(clock) : CreateRoom(room, t)
  \/ \E r \in RoomIdInputs, q \in RequesterInputs : DeleteRoom(r, q)
  \/ \E m \in MessageInputs, t1 \in Now(clock), t2 \in Now(clock) :
        SendMessage(m, t1, t2)
  \/ \E i \in 1..Len(timers) : Deliver(i, NoThrow)
  \/ \E h \in Handlers : Subscribe(h)

Spec == Init /\ [][Next]_vars

(***************************************************************************)
(* Reads of the messages collection next to the writes of sendMessage      *)
(***************************************************************************)
\* getMessages has no await: load, filter, return; a read is not counted in
\* nCalls, the number of settled calls bounds it
GetMessages(roomId) ==
  /\ ret.n < MaxCalls + MaxReads
  /\ Settle("chat_messages", INITIAL_MESSAGES,
            Outcome(FALSE, Messages, <<>>, "ok", getMessages(Messages, roomId)),
            "getMessages", [roomId |-> roomId], timers)
  /\ UNCHANGED <<clock, listeners, received, uncaught, nCalls, view>>

NextRead ==
  \/ \E m \in MessageInputs, t1 \in Now(clock), t2 \in Now(clock) :
        SendMessage(m, t1, t2)
  \/ \E r \in ReadRoomInputs : GetMessages(r)
  \/ \E i \in 1..Len(timers) : Deliver(i, NoThrow)
  \/ \E h \in Handlers : Subscribe(h)

SpecRead == Init /\ [][NextRead]_vars

(***************************************************************************)
(* The bus with several listeners that come and go, and may throw          *)
(***************************************************************************)
\* the function subscribeToSocket returned is called
Unsubscribe(h) ==
  /\ \E i \in 1..Len(listeners) : listeners[i] = h
  /\ listeners' = unsubscribe(listeners, h)
  /\ UNCHANGED <<storage, clock, timers, received, uncaught, ret, nCalls, view>>

\* a Listener is any function of the event: each call returns or throws
Throwers(ls) == {NoThrow} \cup {ls[k] : k \in 1..Len(ls)}

BusRoomInputs == {room \in RoomInputs : ~room.isPrivate}

NextBus ==
  \/ \E room \in BusRoomInputs, t \in Now(clock) : CreateRoom(room, t)
  \/ \E r \in RoomIdInputs : DeleteRoom(r, Id("u", 1))
  \/ \E i \in 1..Len(timers), t \in Throwers(listeners) : Deliver(i, t)
  \/ \E h \in BusHandlers : Subscribe(h)
  \/ \E h \in BusHandlers : Unsubscribe(h)

\* Init with the listeners of each settled call recorded in ret
InitBus ==
  /\ storage = [k \in Keys |-> <<>>]
  /\ clock = StartTime
  /\ timers = <<>>
  /\ listeners = <<>>
  /\ received = [h \in BusHandlers |-> <<>>]
  /\ uncaught = NoThrow
  /\ ret = [n |-> 0, op |-> "none", args |-> <<>>, result |-> "none",
            value |-> Undefined, events |-> <<>>, subscribed |-> <<>>]
  /\ nCalls = 0
  /\ view = InitialView([id |-> Null])

SpecBus == InitBus /\ [][NextBus]_vars

(***************************************************************************)
(* One ChatApp, mounted for user1, and the commands it issues              *)
(***************************************************************************)
\* what the user types into the password input; the input starts empty
JoinPasswordInputs == {"123"}

\* the create-room form filled for a public room, and for a private room
\* with a password
ViewRoomInputs == {room \in RoomInputs : Get(room, "password") # ""}

\* a page load with the session App saved at login: user1 has logged in
\* before, the store holds the users written then, App parses the saved
\* user and renders ChatApp with it; no call has been made on this page
InitView ==
  LET out == login(INITIAL_USERS, "user1@test.com", "password123")
      empty == [k \in Keys |-> <<>>]
  IN  /\ storage = setStorage(getStorageEffect(empty, "chat_users", INITIAL_USERS),
                              "chat_users", out.data)
      /\ clock = StartTime
      /\ timers = <<>>
      /\ listeners = <<>>
      /\ received = [h \in BusHandlers |-> <<>>]
      /\ uncaught = NoThrow
      /\ ret = [n |-> 0, op |-> "none", args |-> <<>>, result |-> "none",
                value |-> Undefined, events |-> <<>>,
                subscribed |-> Untracked]
      /\ nCalls = 0
      /\ view = InitialView(JsonObject(out.value))

\* the mount effect: loadData calls getRooms and getUsers, subscribeToSocket
\* registers the callback, then setRooms and setUsers take what was loaded
Mount ==
  /\ ~view.mounted
  /\ view.currentUser.id # Null
  /\ storage' = getStorageEffect(
                   getStorageEffect(storage, "chat_rooms", INITIAL_ROOMS),
                   "chat_users", INITIAL_USERS)
  /\ listeners' = subscribeToSocket(listeners, ChatAppHandler)
  /\ view' = [view EXCEPT !.mounted = TRUE, !.rooms = Rooms, !.users = Users]
  /\ ret' = [n |-> ret.n + 2, op |-> "getUsers", args |-> <<>>,
             result |-> "ok", value |-> Users, events |-> <<>>,
             subscribed |-> ret.subscribed]
  /\ UNCHANGED <<clock, timers, received, uncaught, nCalls>>

\* the effect on [activeRoomId] after a render that a timer callback caused
SyncRef ==
  /\ view.activeRoomIdRef # view.activeRoomId
  /\ view' = [view EXCEPT !.activeRoomIdRef = view.activeRoomId]
  /\ UNCHANGED <<storage, clock, timers, listeners, received, uncaught, ret,
                 nCalls>>

\* the calls settled once ChatApp is mounted: getRooms, getUsers; the calls
\* settled after that are the nCalls commands and the getMessages of the joins
SettledAtMount == 2

\* a user event reaches the handlers of the last render, after its effects
Rendered == view.mounted /\ view.activeRoomIdRef = view.activeRoomId

\* executeJoinRoom: getMessages runs within the call, its result is set
\* before any timer or event handler runs
ExecuteJoinRoom(v, roomId) ==
  /\ ret.n - SettledAtMount - nCalls < MaxJoins
  /\ Settle("chat_messages", INITIAL_MESSAGES,
            Outcome(FALSE, Messages, <<>>, "ok", getMessages(Messages, roomId)),
            "getMessages", [roomId |-> roomId], timers)
  /\ view' = executeJoinRoom(v, roomId, getMessages(Messages, roomId))
  /\ UNCHANGED <<clock, listeners, received, uncaught, nCalls>>

\* handleJoinRoom(room) for the k-th room of the sidebar
HandleJoinRoom(k) ==
  /\ Rendered
  /\ k \in 1..Len(view.rooms)
  /\ view.rooms[k].id # view.activeRoomId
  /\ IF needsPassword(view.rooms[k])
     THEN /\ view' = [view EXCEPT !.pendingRoom = view.rooms[k],
                                  !.joinPassword = "", !.joinError = "",
                                  !.showPasswordModal = TRUE]
          /\ UNCHANGED <<storage, clock, timers, listeners, received,
                         uncaught, ret, nCalls>>
     ELSE ExecuteJoinRoom(view, view.rooms[k].id)

\* the password modal is rendered
ModalShown == Rendered /\ view.showPasswordModal /\ view.pendingRoom # NoRoom

\* onChange of the password input
TypePassword(pw) ==
  /\ ModalShown
  /\ view' = [view EXCEPT !.joinPassword = pw, !.joinError = ""]
  /\ UNCHANGED <<storage, clock, timers, listeners, received, uncaught, ret,
                 nCalls>>

\* handleJoinPrivateSubmit
HandleJoinPrivateSubmit ==
  /\ ModalShown
  /\ IF passwordMatches(view.joinPassword, view.pendingRoom)
     THEN ExecuteJoinRoom(closePasswordModal(view), view.pendingRoom.id)
     ELSE /\ view' = [view EXCEPT !.joinError = "Incorrect password"]
          /\ UNCHANGED <<storage, clock, timers, listeners, received,
                         uncaught, ret, nCalls>>

\* the X and Cancel buttons of the password modal
ClosePasswordModal ==
  /\ ModalShown
  /\ view' = closePasswordModal(view)
  /\ UNCHANGED <<storage, clock, timers, listeners, received, uncaught, ret,
                 nCalls>>

\* handleSendMessage with a text typed and no file
HandleSendMessage(content, now1, now2) ==
  /\ Rendered
  /\ content # ""
  /\ view.activeRoomId # Null
  /\ SendMessage([roomId |-> view.activeRoomId,
                  senderId |-> view.currentUser.id,
                  senderName |-> view.currentUser.name,
                  senderAvatar |-> view.currentUser.avatar,
                  content |-> content, type |-> "text"], now1, now2)

\* the create-room form
HandleCreateRoom(room, now) ==
  /\ Rendered
  /\ room.createdBy = view.currentUser.id
  /\ CreateRoom(room, now)

\* handleDeleteRoom on the k-th room of the sidebar, the confirm dialog
\* accepted; the control is rendered for the rooms the current user created,
\* it takes clicks only, and the overlay of the password modal covers it
HandleDeleteRoom(k) ==
  /\ Rendered
  /\ ~view.showPasswordModal
  /\ k \in 1..Len(view.rooms)
  /\ view.rooms[k].createdBy = view.currentUser.id
  /\ DeleteRoom(view.rooms[k].id, view.currentUser.id)

\* the first callback that throws on the event, for the listeners ChatApp
\* registers
ViewThrower(ev) ==
  IF (\E k \in 1..Len(listeners) : listeners[k] = ChatAppHandler)
       /\ handlerThrows(view, ev)
  THEN ChatAppHandler ELSE NoThrow

MaxRooms == Len(INITIAL_ROOMS) + MaxCalls + 1

NextView ==
  \/ Mount
  \/ SyncRef
  \/ \E k \in 1..MaxRooms : HandleJoinRoom(k)
  \/ \E pw \in JoinPasswordInputs : TypePassword(pw)
  \/ HandleJoinPrivateSubmit
  \/ ClosePasswordModal
  \/ HandleSendMessage("hi", clock, clock)
  \/ \E room \in ViewRoomInputs, t \in Now(clock) : HandleCreateRoom(room, t)
  \/ \E k \in 1..MaxRooms : HandleDeleteRoom(k)
  \/ \E i \in 1..Len(timers) : Deliver(i, ViewThrower(timers[i].event))

SpecView == InitView /\ [][NextView]_vars

(***************************************************************************)
(* Teardown of ChatApp, next to a handler that comes and goes              *)
(***************************************************************************)
\* the logout button: App.handleLogout calls logout, whose body runs within
\* the call, and sets the user to null; the render that follows removes
\* ChatApp, whose state is dropped and whose effect cleanup calls the
\* unsubscribe function
HandleLogout ==
  /\ Rendered
  /\ nCalls < MaxCalls
  /\ nCalls' = nCalls + 1
  /\ Settle("chat_users", INITIAL_USERS, logout(Users, view.currentUser.id),
            "logout", [userId |-> view.currentUser.id], timers)
  /\ listeners' = unsubscribe(listeners, ChatAppHandler)
  /\ view' = InitialView([id |-> Null])
  /\ UNCHANGED <<clock, received, uncaught>>

TeardownRoomInputs == {room \in ViewRoomInputs : ~room.isPrivate}

\* the saved-session page load, with the listeners of each settled call
\* recorded in ret
InitTeardown ==
  LET out == login(INITIAL_USERS, "user1@test.com", "password123")
      empty == [k \in Keys |-> <<>>]
  IN  /\ storage = setStorage(getStorageEffect(empty, "chat_users", INITIAL_USERS),
                              "chat_users", out.data)
      /\ clock = StartTime
      /\ timers = <<>>
      /\ listeners = <<>>
      /\ received = [h \in BusHandlers |-> <<>>]
      /\ uncaught = NoThrow
      /\ ret = [n |-> 0, op |-> "none", args |-> <<>>, result |-> "none",
                value |-> Undefined, events |-> <<>>, subscribed |-> <<>>]
      /\ nCalls = 0
      /\ view = InitialView(JsonObject(out.value))

NextTeardown ==
  \/ Mount
  \/ \E room \in TeardownRoomInputs, t \in Now(clock) : HandleCreateRoom(room, t)
  \/ HandleLogout
  \/ \E i \in 1..Len(timers) : Deliver(i, ViewThrower(timers[i].event))
  \/ \E h \in Handlers : Subscribe(h)
  \/ \E h \in Handlers : Unsubscribe(h)

SpecTeardown == InitTeardown /\ [][NextTeardown]_vars

(***************************************************************************)
(* The appending commands, issued while others are in flight               *)
(***************************************************************************)
\* two emails no seeded user has
AppendEmailInputs == {"new@test.com", "other@test.com"}

AppendMessageInputs == {m \in MessageInputs : m.content # ""}

NextAppend ==
  \/ \E n \in NameInputs, e \in AppendEmailInputs, p \in NewPasswordInputs :
        RegisterCall(n, e, p)
  \/ \E i \in 1..Len(timers), t1 \in Now(clock), t2 \in Now(clock) :
        RegisterResume(i, t1, t2)
  \/ \E room \in BusRoomInputs, t \in Now(clock) : CreateRoom(room, t)
  \/ \E m \in AppendMessageInputs, t1 \in Now(clock), t2 \in Now(clock) :
        SendMessage(m, t1, t2)
  \/ \E i \in 1..Len(timers) : Deliver(i, NoThrow)

SpecAppend == Init /\ [][NextAppend]_vars

(***************************************************************************)
(* A page load over a localStorage whose items were written elsewhere      *)
(***************************************************************************)
\* what localStorage.getItem can return for a key: null, the empty string,
\* a text that is not JSON, the JSON of an array
ItemKinds == {"null", "empty", "text", "array"}

ItemInput(kind, init) ==
  CASE kind = "null" -> <<>>
    [] kind = "empty" -> RawItem("")
    [] kind = "text" -> RawItem("[{")
    [] kind = "array" -> <<Json(init)>>

\* the three items are of one kind
InitStored ==
  /\ \E kind \in ItemKinds :
        storage = [k \in Keys |->
                     ItemInput(kind, CASE k = "chat_users" -> INITIAL_USERS
                                       [] k = "chat_rooms" -> INITIAL_ROOMS
                                       [] k = "chat_messages" -> INITIAL_MESSAGES)]
  /\ clock = StartTime
  /\ timers = <<>>
  /\ listeners = <<>>
  /\ received = [h \in BusHandlers |-> <<>>]
  /\ uncaught = NoThrow
  /\ ret = [n |-> 0, op |-> "none", args |-> <<>>, result |-> "none",
            value |-> Undefined, events |-> <<>>, subscribed |-> Untracked]
  /\ nCalls = 0
  /\ view = InitialView([id |-> Null])

NextStored ==
  \/ Logout(Id("u", 1))
  \/ \E room \in BusRoomInputs, t \in Now(clock) : CreateRoom(room, t)
  \/ DeleteRoom(Id("r", 3), Id("u", 1))
  \/ \E m \in AppendMessageInputs : SendMessage(m, clock, clock)
  \/ \E r \in ReadRoomInputs : GetMessages(r)
  \/ \E i \in 1..Len(timers) : Deliver(i, NoThrow)

SpecStored == InitStored /\ [][NextStored]_vars

(***************************************************************************)
(* Loads and saves of the rooms collection                                 *)
(***************************************************************************)
\* getRooms: the load and nothing else
GetRooms ==
  /\ ret.n < MaxCalls + MaxReads
  /\ Settle("chat_rooms", INITIAL_ROOMS,
            Outcome(FALSE, Rooms, <<>>, "ok", Rooms), "getRooms", <<>>, timers)
  /\ UNCHANGED <<clock, listeners, received, uncaught, nCalls, view>>

\* the rooms item at page load: never written, or left by an earlier page
\* that deleted the two lobby rooms
RoomsItemInputs == {<<>>, <<Json(SubSeq(INITIAL_ROOMS, 3, 3))>>}

InitLoad ==
  /\ \E item \in RoomsItemInputs :
        storage = [k \in Keys |-> IF k = "chat_rooms" THEN item ELSE <<>>]
  /\ clock = StartTime
  /\ timers = <<>>
  /\ listeners = <<>>
  /\ received = [h \in BusHandlers |-> <<>>]
  /\ uncaught = NoThrow
  /\ ret = [n |-> 0, op |-> "none", args |-> <<>>, result |-> "none",
            value |-> Undefined, events |-> <<>>, subscribed |-> Untracked]
  /\ nCalls = 0
  /\ view = InitialView([id |-> Null])

NextLoad ==
  \/ GetRooms
  \/ \E room \in RoomInputs, t \in Now(clock) : CreateRoom(room, t)
  \/ \E r \in RoomIdInputs : DeleteRoom(r, Id("u", 1))
  \/ \E i \in 1..Len(timers) : Deliver(i, NoThrow)

SpecLoad == InitLoad /\ [][NextLoad]_vars

(***************************************************************************)
(* App: the sign-in forms, the ChatApp they lead to, and its profile form  *)
(***************************************************************************)
\* App renders the forms while user is null; the submit button is disabled
\* while a call is awaited
AuthShown ==
  /\ view.currentUser.id = Null
  /\ \A i \in 1..Len(timers) : timers[i].kind # "latency"

\* handleLogin up to its await
HandleLogin(email, password) ==
  /\ AuthShown
  /\ LoginCall(email, password)

\* the rest of handleLogin: setUser(loggedInUser) renders ChatApp, with its
\* initial state, for the user login returned; a rejection is shown on the
\* form
HandleLoginResume(i) ==
  /\ CanFire(i)
  /\ timers[i].kind = "latency"
  /\ timers[i].op = "login"
  /\ Settle("chat_users", INITIAL_USERS,
            login(Users, timers[i].args.email, timers[i].args.password),
            "login", timers[i].args, RemoveAt(timers, i))
  /\ view' = IF ret'.result = "ok" THEN InitialView(ret'.value) ELSE view
  /\ UNCHANGED <<clock, listeners, received, uncaught, nCalls>>

\* handleRegister up to its await
HandleRegister(name, email, password) ==
  /\ AuthShown
  /\ RegisterCall(name, email, password)

\* the rest of handleRegister: setUser(newUser)
HandleRegisterResume(i, now1, now2) ==
  /\ CanFire(i)
  /\ timers[i].kind = "latency"
  /\ timers[i].op = "register"
  /\ now1 \in Now(clock)
  /\ now2 \in Now(now1)
  /\ Settle("chat_users", INITIAL_USERS,
            register(Users, timers[i].args.name, timers[i].args.email,
                     timers[i].args.password, now1, now2),
            "register", timers[i].args, RemoveAt(timers, i))
  /\ clock' = now2
  /\ view' = IF ret'.result = "ok" THEN InitialView(ret'.value) ELSE view
  /\ UNCHANGED <<listeners, received, uncaught, nCalls>>

\* what UserProfileModal.handleSave sends: name and avatar always, password
\* when one was typed
ProfileInputs(user) ==
  { [name |-> "Neo", avatar |-> Get(user, "avatar")],
    [name |-> Get(user, "name"), avatar |-> "webp", password |-> "changed"] }

\* UserProfileModal.handleSave for the user ChatApp was rendered with
HandleSave(updates) ==
  /\ Rendered
  /\ UpdateProfile(view.currentUser.id, updates)

SessionEmailInputs == {"user1@test.com"}
SessionNewEmailInputs == {"new@test.com"}

\* a page load without a saved session on a fresh store, or with the
\* session saved at an earlier login
InitSession == Init \/ InitView

NextSession ==
  \/ \E e \in SessionEmailInputs, p \in PasswordInputs : HandleLogin(e, p)
  \/ \E i \in 1..Len(timers) : HandleLoginResume(i)
  \/ \E n \in NameInputs, e \in SessionNewEmailInputs, p \in NewPasswordInputs :
        HandleRegister(n, e, p)
  \/ \E i \in 1..Len(timers), t1 \in Now(clock), t2 \in Now(clock) :
        HandleRegisterResume(i, t1, t2)
  \/ Mount
  \/ \E updates \in ProfileInputs(view.currentUser) : HandleSave(updates)
  \/ \E room \in TeardownRoomInputs, t \in Now(clock) : HandleCreateRoom(room, t)
  \/ HandleLogout
  \/ \E i \in 1..Len(timers) : Deliver(i, ViewThrower(timers[i].event))

SpecSession == InitSession /\ [][NextSession]_vars

(***************************************************************************)
(* Vocabulary of the properties                                            *)
(***************************************************************************)
\* the step completes a command named op (its promise settles)
Completes(op) == ret'.n = ret.n + 1 /\ ret'.op = op

Succeeds(op) == Completes(op) /\ ret'.result = "ok"

\* the events of the broadcast timers of a timer list, in order
Pending(tms) ==
  LET bs == SelectSeq(tms, LAMBDA t : t.kind = "broadcast")
  IN  [k \in 1..Len(bs) |-> bs[k].event]

\* the step makes no call of broadcast
PublishesNothing == Pending(timers') = Pending(timers)

\* the step makes exactly one call of broadcast, with an event of this type
PublishesOne(type) ==
  /\ Len(Pending(timers')) = Len(Pending(timers)) + 1
  /\ \A k \in 1..Len(Pending(timers)) : Pending(timers')[k] = Pending(timers)[k]
  /\ Pending(timers')[Len(Pending(timers'))].type = type
  /\ timers'[Len(timers')].kind = "broadcast"

InSeq(x, s) == \E i \in 1..Len(s) : s[i] = x

RoomWithId(rooms, roomId) == \E i \in 1..Len(rooms) : rooms[i].id = roomId

UserWithId(users, userId) == \E i \in 1..Len(users) : users[i].id = userId

(***************************************************************************)
(* Claims                                                                  *)
(***************************************************************************)
\* the requester of a deleteRoom call is not the creator of the room it names
NonOwnerDelete(rooms, args) ==
  \E i \in 1..Len(rooms) :
     rooms[i].id = args.roomId /\ rooms[i].createdBy # args.requesterId

\* C1: deleteRoom(r, q) with q different from the owner of r fails with
\* NotOwner, leaves the rooms collection unchanged and publishes no event.
C1_NonOwnerDeleteRejected ==
  [][ (Completes("deleteRoom") /\ NonOwnerDelete(Rooms, ret'.args))
        => /\ ret'.result = "NotOwner"
           /\ Rooms' = Rooms
           /\ PublishesNothing ]_vars

\* the credential of a createRoom input is empty or absent
NoCredential(room) == Get(room, "password") \in {"", Undefined}

\* C2: createRoom with isPrivate set and an empty or absent credential fails
\* with MissingPassword, adds no room and publishes no ROOM_CREATED event.
C2_PrivateRoomNeedsPassword ==
  [][ (Completes("createRoom") /\ ret'.args.room.isPrivate
         /\ NoCredential(ret'.args.room))
        => /\ ret'.result = "MissingPassword"
           /\ Rooms' = Rooms
           /\ PublishesNothing ]_vars

\* C3: in every reachable state every private room of the rooms collection
\* has a non-empty credential.
C3_PrivateRoomHasCredential ==
  \A i \in 1..Len(Rooms) : Rooms[i].isPrivate => ~NoCredential(Rooms[i])

\* content is non-empty and roomId resolves to a stored room
ValidMessage(rooms, message) ==
  message.content # "" /\ RoomWithId(rooms, message.roomId)

\* C4: sendMessage succeeds only with a non-empty content and a roomId that
\* resolves to a stored room at the moment of the call; otherwise no message
\* is appended and no NEW_MESSAGE event is published.
C4_SendMessageValidates ==
  [][ Completes("sendMessage")
        => /\ ret'.result = "ok" => ValidMessage(Rooms, ret'.args.message)
           /\ ~ValidMessage(Rooms, ret'.args.message)
                => Messages' = Messages /\ PublishesNothing ]_vars

MutatingOps == {"login", "register", "logout", "updateProfile", "createRoom",
                "deleteRoom", "sendMessage"}

\* the event type documented for each mutating command
DocumentedType(op) ==
  CASE op = "login" -> "USER_UPDATE"
    [] op = "register" -> "USER_JOINED"
    [] op = "logout" -> "USER_LEFT"
    [] op = "updateProfile" -> "USER_UPDATE"
    [] op = "createRoom" -> "ROOM_CREATED"
    [] op = "deleteRoom" -> "ROOM_DELETED"
    [] op = "sendMessage" -> "NEW_MESSAGE"

\* the store holds the change the event describes
Committed(ev, st) ==
  LET users == getStorage(st, "chat_users", INITIAL_USERS)
      rooms == getStorage(st, "chat_rooms", INITIAL_ROOMS)
      msgs == getStorage(st, "chat_messages", INITIAL_MESSAGES)
  IN  CASE ev.type \in {"USER_UPDATE", "USER_JOINED"} ->
             InSeq(JsonObject(ev.payload), users)
        [] ev.type = "USER_LEFT" ->
             st["chat_users"] # <<>> /\
             \A i \in 1..Len(users) :
                users[i].id = ev.payload.userId => ~users[i].isOnline
        [] ev.type = "ROOM_CREATED" -> InSeq(JsonObject(ev.payload), rooms)
        [] ev.type = "ROOM_DELETED" ->
             st["chat_rooms"] # <<>> /\ ~RoomWithId(rooms, ev.payload.roomId)
        [] ev.type = "NEW_MESSAGE" -> InSeq(JsonObject(ev.payload), msgs)

\* the step publishes one event of the type documented for op, the store
\* written by the same step holds its change, and no handler has run yet
OneEventAfterWrite(op) ==
  /\ PublishesOne(DocumentedType(op))
  /\ Committed(Pending(timers')[Len(Pending(timers'))], storage')
  /\ received' = received

\* C5 as stated: every successful mutating command, also one that changes
\* nothing in the store, publishes exactly one event of its documented type,
\* delivered only after the command's store write.
C5_EveryCommandOneEvent ==
  [][ \A op \in MutatingOps : Succeeds(op) => OneEventAfterWrite(op) ]_vars

\* C5 amended: the same, except that updateProfile on a user id that is not
\* in the store publishes no event.
C5_OneEventUnlessUnknownProfile ==
  [][ \A op \in MutatingOps :
        Succeeds(op) =>
          IF op = "updateProfile" /\ ~UserWithId(Users, ret'.args.userId)
          THEN PublishesNothing /\ Users' = Users
          ELSE OneEventAfterWrite(op) ]_vars

\* a logout and a deleteRoom on ids that are not in the store have each
\* published their event, and a handler has received one
C5_Witness ==
  /\ ret.op = "deleteRoom" /\ ret.args.roomId = Id("r", 0)
  /\ Len(ret.events) = 1
  /\ \E k \in 1..Len(received["h1"]) :
        /\ received["h1"][k].type = "USER_LEFT"
        /\ received["h1"][k].payload.userId = Id("u", 0)

\* some stored user has exactly this email and this credential
CredentialsMatch(users, email, password) ==
  \E i \in 1..Len(users) :
     Get(users[i], "email") = email /\ Get(users[i], "password") = password

\* C6: login fails with "Invalid credentials" whenever no stored user has
\* exactly that email and that credential; the users collection is then
\* unchanged and no event is published.
C6_LoginRejectsMismatch ==
  [][ (Completes("login")
         /\ ~CredentialsMatch(Users, ret'.args.email, ret'.args.password))
        => /\ ret'.result = "Invalid credentials"
           /\ Users' = Users
           /\ PublishesNothing
           /\ received' = received ]_vars

\* a login with the password of no user of that email has been rejected
C6_Witness ==
  /\ ret.op = "login" /\ ret.result = "Invalid credentials"
  /\ ret.args.email = "user1@test.com" /\ ret.args.password = "wrong"
  /\ storage["chat_users"] # <<>>

\* some stored user has this email
EmailInUse(users, email) ==
  \E i \in 1..Len(users) : Get(users[i], "email") = email

\* C7: register with an email that is in the users collection when the body
\* runs fails with "Email already exists", adds no user and publishes no
\* USER_JOINED event.
C7_RegisterRejectsUsedEmail ==
  [][ (Completes("register") /\ EmailInUse(Users, ret'.args.email))
        => /\ ret'.result = "Email already exists"
           /\ Users' = Users
           /\ PublishesNothing ]_vars

\* the second of two register calls for the same new email has been
\* rejected
C7_Witness ==
  /\ ret.op = "register" /\ ret.result = "Email already exists"
  /\ ret.args.email = "new@test.com"
  /\ ret.n = 2

\* C8: in every reachable state no two records of the users collection have
\* the same email.
C8_EmailUnique ==
  \A i, j \in 1..Len(Users) :
     i # j => Get(Users[i], "email") # Get(Users[j], "email")

\* C9: a register that succeeded, followed by login with the same email and
\* credential, succeeds and returns a user with that email whose isOnline is
\* true.
C9_RegisterThenLogin ==
  [][ (/\ ret.op = "register" /\ ret.result = "ok"
       /\ Completes("login")
       /\ ret'.args.email = ret.args.email
       /\ ret'.args.password = ret.args.password)
        => /\ ret'.result = "ok"
           /\ ret'.value.email = ret.args.email
           /\ ret'.value.isOnline
           /\ InSeq(ret'.value, Users') ]_vars

\* a login has succeeded for the user registered just before
C9_Witness ==
  /\ ret.op = "login" /\ ret.result = "ok"
  /\ ret.args.email = "new@test.com"
  /\ ret.value.id[2] >= StartTime
  /\ ret.value.isOnline

\* C10: the ids of the messages collection are pairwise distinct and
\* strictly increasing in insertion order, and so are the timestamps of
\* consecutively sent messages.
C10_MessageIdsIncrease ==
  \A i, j \in 1..Len(Messages) :
     i < j => /\ Messages[i].id # Messages[j].id
              /\ Messages[i].id[2] < Messages[j].id[2]
              /\ Messages[i].timestamp < Messages[j].timestamp

\* the positions of the messages of room roomId, in insertion order
PositionsOf(msgs, roomId) == {i \in 1..Len(msgs) : msgs[i].roomId = roomId}

\* v lists exactly the elements of msgs at the positions of pos, in the order
\* of msgs
IsSubsequenceAt(v, msgs, pos) ==
  /\ Len(v) = Cardinality(pos)
  /\ \E f \in [1..Len(v) -> pos] :
        /\ \A a, b \in 1..Len(v) : a < b => f[a] < f[b]
        /\ \A a \in 1..Len(v) : v[a] = msgs[f[a]]

\* C11: getMessages(r) returns exactly the messages whose roomId is r, in
\* insertion order, none of another room and none missing; it leaves the
\* three collections as they were and publishes no event.
C11_GetMessagesFilters ==
  [][ Completes("getMessages")
        => /\ ret'.result = "ok"
           /\ IsSubsequenceAt(ret'.value, Messages,
                              PositionsOf(Messages, ret'.args.roomId))
           /\ Messages' = Messages /\ Rooms' = Rooms /\ Users' = Users
           /\ PublishesNothing
           /\ received' = received ]_vars

\* a read has returned some of the stored messages and left out others
C11_Witness ==
  /\ ret.op = "getMessages"
  /\ ret.value # <<>>
  /\ Len(ret.value) < Len(Messages)

\* the step is the run of the broadcast timer at position i
DeliversAt(i) ==
  /\ i \in 1..Len(timers)
  /\ timers[i].kind = "broadcast"
  /\ timers' = RemoveAt(timers, i)
  /\ ret' = ret

\* the timer at position i holds the event of the command that settled last,
\* so ret.subscribed are the listeners of the moment it was published
LastPublished(i) ==
  /\ ret.events = <<timers[i].event>>
  /\ \A j \in (i+1)..Len(timers) : timers[j].kind # "broadcast"

\* the step hands the event to handler h, once
Receives(h, ev) == received'[h] = Append(received[h], ev)

\* C12: every handler that is subscribed when an event is published
\* receives that event exactly once, and the handlers are served in the
\* order in which they subscribed (a handler is served only if the handlers
\* subscribed before it were).
C12_SubscribedAtPublishReceive ==
  [][ \A i \in 1..Len(timers) :
        (DeliversAt(i) /\ LastPublished(i))
          => /\ \A k \in 1..Len(ret.subscribed) :
                   Receives(ret.subscribed[k], timers[i].event)
             /\ \A a, b \in 1..Len(listeners) :
                   (a < b /\ Receives(listeners[b], timers[i].event))
                     => Receives(listeners[a], timers[i].event) ]_vars

\* C13 as stated: a handler that subscribes after the call of broadcast,
\* also one that subscribes before the delayed delivery, never receives the
\* event.
C13_NoDeliveryToLateSubscriber ==
  [][ \A i \in 1..Len(timers) :
        (DeliversAt(i) /\ LastPublished(i))
          => \A h \in BusHandlers :
                (\A k \in 1..Len(ret.subscribed) : ret.subscribed[k] # h)
                  => received'[h] = received[h] ]_vars

\* C13 amended: a handler receives an event only in the step that delivers
\* it, once, and only if it is subscribed at that moment; an event that was
\* delivered is never handed out again.
C13_OnlySubscribedAtDelivery ==
  [][ \A h \in BusHandlers :
        received'[h] # received[h]
          => \E i \in 1..Len(timers) :
                /\ DeliversAt(i)
                /\ \E k \in 1..Len(listeners) : listeners[k] = h
                /\ Receives(h, timers[i].event) ]_vars

\* a handler that subscribed after the only event was published has
\* received it
C13_Witness ==
  /\ ret.n = 1 /\ Len(ret.events) = 1
  /\ \E h \in BusHandlers :
        /\ \A k \in 1..Len(ret.subscribed) : ret.subscribed[k] # h
        /\ received[h] = ret.events

\* C14: when a handler throws on an event, every other subscribed handler
\* still receives that event, and the events delivered after it reach every
\* subscribed handler.
C14_ThrowDoesNotStopDelivery ==
  [][ \A i \in 1..Len(timers) :
        (DeliversAt(i) /\ (uncaught' # NoThrow \/ uncaught # NoThrow))
          => \A k \in 1..Len(listeners) :
                Receives(listeners[k], timers[i].event) ]_vars

\* the states of the join gate, read from the view
CredentialChallenge(v) ==
  v.showPasswordModal /\ v.pendingRoom # NoRoom /\ v.joinError = ""

Rejected(v) ==
  v.showPasswordModal /\ v.pendingRoom # NoRoom /\ v.joinError # ""

\* the step makes roomId the active room of the view
BecomesActive(roomId) ==
  view'.activeRoomId = roomId /\ view.activeRoomId # roomId /\ roomId # Null

\* the step leaves the store and the pending events as they were, and
\* settles no call
NoCallNoWrite == storage' = storage /\ timers' = timers /\ ret' = ret

\* C15: a join attempt on a room whose isPrivate is false makes the room
\* active in that same step; the password modal is not opened and the
\* pending room, the typed password and the join error are not touched.
C15_PublicJoinIsDirect ==
  [][ \A k \in 1..Len(view.rooms) :
        (HandleJoinRoom(k) /\ ~view.rooms[k].isPrivate)
          => /\ BecomesActive(view.rooms[k].id)
             /\ view'.showPasswordModal = view.showPasswordModal
             /\ view'.pendingRoom = view.pendingRoom
             /\ view'.joinPassword = view.joinPassword
             /\ view'.joinError = view.joinError ]_vars

\* a public room created from the view has been joined with no challenge
C15_Witness ==
  /\ view.activeRoomId[2] >= StartTime
  /\ ret.op = "getMessages" /\ ret.args.roomId = view.activeRoomId
  /\ \E k \in 1..Len(view.rooms) :
        view.rooms[k].id = view.activeRoomId /\ ~view.rooms[k].isPrivate
  /\ \A k \in 1..Len(view.rooms) :
        view.rooms[k].id = view.activeRoomId => ~view.rooms[k].isPrivate
  /\ ~view.showPasswordModal

\* C16: submitting a credential different from the credential of the room
\* of the attempt shows the error and keeps the challenge open: no messages
\* are fetched, the active room and the message list stay, the store and
\* the pending events stay.  Typing again clears the error, and a submit
\* with the right credential joins, however many rejections came before.
C16_WrongCredentialRejected ==
  [][ /\ (HandleJoinPrivateSubmit
            /\ view.joinPassword # Get(view.pendingRoom, "password"))
          => /\ Rejected(view')
             /\ view'.pendingRoom = view.pendingRoom
             /\ view'.activeRoomId = view.activeRoomId
             /\ view'.messages = view.messages
             /\ NoCallNoWrite
      /\ \A pw \in JoinPasswordInputs :
            (Rejected(view) /\ TypePassword(pw))
              => /\ CredentialChallenge(view')
                 /\ view'.pendingRoom = view.pendingRoom
                 /\ view'.joinPassword = pw
      /\ (HandleJoinPrivateSubmit
            /\ view.joinPassword = Get(view.pendingRoom, "password"))
          => /\ view'.activeRoomId = view.pendingRoom.id
             /\ ~view'.showPasswordModal ]_vars

\* a submit without the password of the private room has been rejected: the
\* room has messages in the store, the view shows none of them and is in
\* another room
C16_Witness ==
  /\ Rejected(view)
  /\ view.pendingRoom.id = Id("r", 3) /\ view.joinPassword = ""
  /\ view.activeRoomId = Id("r", 1)
  /\ view.messages = <<>>
  /\ \E i \in 1..Len(Messages) : Messages[i].roomId = Id("r", 3)

\* C17: a room that is private, in the store or in the sidebar, becomes the
\* active room of the view only in a step that submits, in the password
\* modal opened for that room, a password equal to the room's password.
C17_PrivateNeedsMatch ==
  [][ \A room \in {Rooms[i] : i \in 1..Len(Rooms)}
                   \cup {view.rooms[i] : i \in 1..Len(view.rooms)} :
        (room.isPrivate /\ BecomesActive(room.id))
          => /\ view.showPasswordModal
             /\ view.pendingRoom.id = room.id
             /\ view.joinPassword = Get(room, "password") ]_vars

\* C18: every step that makes a room active calls getMessages for that
\* room, and the message list of the view is then the messages of the store
\* with that roomId, in order.
C18_JoinLoadsHistory ==
  [][ \A roomId \in {view'.activeRoomId} :
        BecomesActive(roomId)
          => /\ Completes("getMessages")
             /\ ret'.args.roomId = roomId
             /\ view'.messages = ret'.value
             /\ IsSubsequenceAt(view'.messages, Messages',
                                PositionsOf(Messages', roomId)) ]_vars

\* a room without messages has been joined after a room with a message:
\* the list of the view has been replaced by the empty history
C18_Witness ==
  /\ ret.op = "getMessages" /\ ret.args.roomId = view.activeRoomId
  /\ view.activeRoomId = Id("r", 2)
  /\ view.messages = <<>>
  /\ \E i \in 1..Len(Messages) : Messages[i].roomId = Id("r", 1)

\* C19: commands take effect in the order in which they were issued,
\* whatever their delays: a call settles only when no call issued before it
\* is still waiting in its latency timer, so login(u) issued before
\* logout(u) has taken effect when logout does and leaves u offline, and
\* the events of the two are published in issue order.
C19_IssueOrder ==
  [][ ret'.n = ret.n + 1
        => IF nCalls' = nCalls + 1
           THEN \A j \in 1..Len(timers) : timers[j].kind # "latency"
           ELSE \E i \in 1..Len(timers) :
                   /\ timers[i].kind = "latency"
                   /\ \A j \in 1..(i-1) : timers[j].kind # "latency"
                   /\ ret'.op = timers[i].op /\ ret'.args = timers[i].args ]_vars

\* C20 as stated: no other command writes the store between a command's
\* write and the delivery of its event, so the event a delivery hands out is
\* that of the command that wrote last, and the store holds its change.
C20_DeliveredEventIsLatest ==
  [][ \A i \in 1..Len(timers) :
        (DeliversAt(i) /\ ret.result = "ok")
          => LastPublished(i) /\ Committed(timers[i].event, storage) ]_vars

\* C20 amended: a command's store write and its calls of broadcast happen
\* in one turn: the step that writes the store is the step that settles the
\* command and queues its events behind those already pending, none is
\* delivered in it, and the store then holds the change of each.
C20_WriteAndPublishInOneTurn ==
  [][ (storage' # storage \/ Len(Pending(timers')) > Len(Pending(timers)))
        => /\ ret'.n = ret.n + 1
           /\ Pending(timers') = Pending(timers) \o ret'.events
           /\ \A k \in 1..Len(ret'.events) : Committed(ret'.events[k], storage')
           /\ received' = received ]_vars

\* the ROOM_CREATED of a room has been delivered to a handler that
\* subscribed after deleteRoom had removed that room from the store
C20_Witness ==
  /\ ret.op = "deleteRoom" /\ ret.subscribed = <<>>
  /\ ~RoomWithId(Rooms, ret.args.roomId)
  /\ \E k \in 1..Len(received["h1"]) :
        /\ received["h1"][k].type = "ROOM_CREATED"
        /\ received["h1"][k].payload.id = ret.args.roomId

AppendingOps == {"sendMessage", "createRoom", "register"}

\* the collection an appending command works on, read from a store
CollectionOf(op, st) ==
  CASE op = "register" -> getStorage(st, "chat_users", INITIAL_USERS)
    [] op = "createRoom" -> getStorage(st, "chat_rooms", INITIAL_ROOMS)
    [] op = "sendMessage" -> getStorage(st, "chat_messages", INITIAL_MESSAGES)

\* C21: whatever other commands are in flight, the step that settles a
\* successful sendMessage, createRoom or register leaves in its collection
\* every record that was there, in place, followed by the new record, and
\* leaves the other two collections as they were; no other step changes a
\* collection.  So after N successful appending commands all N records are
\* stored.
C21_AppendsKeepAll ==
  [][ IF \E op \in AppendingOps : Succeeds(op)
      THEN \A op \in AppendingOps :
             IF Succeeds(op)
             THEN CollectionOf(op, storage')
                    = Append(CollectionOf(op, storage), JsonObject(ret'.value))
             ELSE CollectionOf(op, storage') = CollectionOf(op, storage)
      ELSE Users' = Users /\ Rooms' = Rooms /\ Messages' = Messages ]_vars

\* two register calls were in flight together (the event of the first is
\* still pending when the second settles) and both users are stored
C21_Witness ==
  /\ ret.op = "register" /\ ret.result = "ok" /\ ret.n = 2
  /\ Len(Users) = Len(INITIAL_USERS) + 2
  /\ Len(Pending(timers)) = 2
  /\ \A k \in 1..2 :
        /\ Pending(timers)[k].type = "USER_JOINED"
        /\ InSeq(JsonObject(Pending(timers)[k].payload), Users)
  /\ Pending(timers)[1].payload.email # Pending(timers)[2].payload.email

Commands == MutatingOps \cup {"getMessages"}

\* the key and the default a command passes to getStorage
KeyOf(op) ==
  CASE op \in {"login", "register", "logout", "updateProfile"} -> "chat_users"
    [] op \in {"createRoom", "deleteRoom"} -> "chat_rooms"
    [] op \in {"sendMessage", "getMessages"} -> "chat_messages"

DefaultOf(op) ==
  CASE op \in {"login", "register", "logout", "updateProfile"} -> INITIAL_USERS
    [] op \in {"createRoom", "deleteRoom"} -> INITIAL_ROOMS
    [] op \in {"sendMessage", "getMessages"} -> INITIAL_MESSAGES

\* the item is a text that is not JSON, the empty string included
Malformed(item) == Len(item) = 2

\* the command ran on the default: it did not fail on the load, the key now
\* holds an array, and a read returned the default and persisted it
RanOnDefault(op) ==
  /\ ret'.result # "SyntaxError"
  /\ Len(storage'[KeyOf(op)]) = 1
  /\ op = "getMessages"
       => /\ storage'[KeyOf(op)] = <<Json(DefaultOf(op))>>
          /\ ret'.value = SelectSeq(DefaultOf(op),
                                    LAMBDA m : m.roomId = ret'.args.roomId)

\* C22 as stated: when the persisted payload of a collection is malformed,
\* the load reseeds it: the command runs on the default, which is
\* persisted, and does not fail.
C22_MalformedReseeds ==
  [][ \A op \in Commands :
        (Completes(op) /\ Malformed(storage[KeyOf(op)])) => RanOnDefault(op) ]_vars

\* C22 amended: a payload that is absent or the empty string is reseeded
\* from the default; any other payload that is not JSON makes the load
\* throw: the command fails with that error, the store keeps the payload
\* and no event is published.
C22_OnlyEmptyReseeds ==
  [][ \A op \in Commands :
        Completes(op) =>
          IF storage[KeyOf(op)] \in {<<>>, RawItem("")}
          THEN RanOnDefault(op)
          ELSE Malformed(storage[KeyOf(op)])
                 => /\ ret'.result = "SyntaxError"
                    /\ storage' = storage
                    /\ PublishesNothing ]_vars

\* two commands in a row have failed on the same payload that is not JSON
C22_Witness ==
  /\ ret.op = "createRoom" /\ ret.result = "SyntaxError" /\ ret.n = 2
  /\ storage["chat_rooms"] = RawItem("[{")

\* a load of the rooms collection: on a key never written it returns the
\* default and persists it, otherwise it returns the persisted sequence and
\* leaves the store as it is
LoadsRooms ==
  Completes("getRooms")
    => IF storage["chat_rooms"] = <<>>
       THEN ret'.value = INITIAL_ROOMS /\ storage'["chat_rooms"] = <<INITIAL_ROOMS>>
       ELSE ret'.value = storage["chat_rooms"][1] /\ storage' = storage

\* C23 as stated: a load on a collection never written returns the default
\* and persists it; a load after a save returns the sequence that was
\* saved, the empty one included, and never the default again; two loads
\* with no save between them return the same value.
C23_LoadReturnsSaved ==
  [][ /\ LoadsRooms
      /\ Completes("createRoom") => Rooms' = Append(Rooms, ret'.value)
      /\ Completes("deleteRoom")
           => Rooms' = SelectSeq(Rooms, LAMBDA r : r.id # ret'.args.roomId)
      /\ (ret.op = "getRooms" /\ Completes("getRooms"))
           => ret'.value = ret.value ]_vars

\* C23 amended: the same, where the sequence a load returns after a save is
\* the saved one as JSON keeps it: the same records in the same order,
\* without the fields whose value was undefined.
C23_LoadReturnsJsonOfSaved ==
  [][ /\ LoadsRooms
      /\ Completes("createRoom")
           => Rooms' = Append(Rooms, JsonObject(ret'.value))
      /\ Completes("deleteRoom")
           => Rooms' = SelectSeq(Rooms, LAMBDA r : r.id # ret'.args.roomId)
      /\ (ret.op = "getRooms" /\ Completes("getRooms"))
           => ret'.value = ret.value ]_vars

\* the empty sequence was saved and not reseeded, a public room was saved
\* after it, and a load has returned that room without its password field
C23_Witness ==
  /\ ret.op = "getRooms" /\ Len(ret.value) = 1
  /\ ret.value[1].id[2] >= StartTime
  /\ "password" \notin DOMAIN ret.value[1]

UserFields == {"id", "name", "email", "password", "avatar", "isOnline", "bio"}

\* the record after is the record before with exactly the fields of updates
\* replaced
MergedOver(after, before, updates) ==
  \A f \in UserFields :
     Get(after, f) = IF f \in DOMAIN updates THEN updates[f] ELSE Get(before, f)

\* C24: updateProfile(userId, updates) on a stored user changes in the
\* record of userId exactly the fields of updates, keeps its other fields,
\* keeps every other record and the order; it publishes one USER_UPDATE
\* whose payload is the whole merged record, which is the stored one and
\* the value returned.
C24_UpdateProfileMerges ==
  [][ (Completes("updateProfile") /\ UserWithId(Users, ret'.args.userId))
        => /\ ret'.result = "ok"
           /\ Len(Users') = Len(Users)
           /\ \A j \in 1..Len(Users) :
                 IF Users[j].id = ret'.args.userId
                 THEN /\ MergedOver(Users'[j], Users[j], ret'.args.updates)
                      /\ ret'.events = <<Event("USER_UPDATE", Users'[j])>>
                      /\ ret'.value = Users'[j]
                 ELSE Users'[j] = Users[j]
           /\ PublishesOne("USER_UPDATE")
           /\ Pending(timers')[Len(Pending(timers'))] = ret'.events[1]
           /\ Rooms' = Rooms /\ Messages' = Messages ]_vars

\* user1 has a new name, avatar and password and the email, bio and online
\* flag of before, and a handler has received the merged record
C24_Witness ==
  /\ ret.op = "updateProfile" /\ ret.args.userId = Id("u", 1)
  /\ Users[1].name = "Neo" /\ Users[1].password = "wrong"
  /\ Users[1].email = "user1@test.com" /\ Users[1].bio = "Love coding!"
  /\ Len(Users) = Len(INITIAL_USERS)
  /\ Users[2] = INITIAL_USERS[2]
  /\ received["h1"] = <<Event("USER_UPDATE", Users[1])>>

\* the record after is the record before with isOnline set to flag
SameButOnline(after, before, flag) ==
  /\ after.isOnline = flag
  /\ \A f \in UserFields \ {"isOnline"} : Get(after, f) = Get(before, f)

IsPrefix(s, t) == Len(s) <= Len(t) /\ \A i \in 1..Len(s) : s[i] = t[i]

\* C26: in every step the messages collection before is a prefix of the
\* collection after; it grows only in a step that completes sendMessage,
\* by one message; deleteRoom leaves it as it was, so the messages of the
\* deleted room stay stored.
C26_MessagesAppendOnly ==
  [][ /\ IsPrefix(Messages, Messages')
      /\ Messages' # Messages
           => Succeeds("sendMessage") /\ Len(Messages') = Len(Messages) + 1
      /\ Completes("deleteRoom")
           => /\ storage'["chat_messages"] = storage["chat_messages"]
              /\ \A i \in 1..Len(Messages) :
                    Messages[i].roomId = ret'.args.roomId
                      => InSeq(Messages[i], Messages') ]_vars

\* the room of a stored message has been deleted, and the message is still
\* stored
C26_Witness ==
  /\ ret.op = "deleteRoom" /\ ret.args.roomId = Id("r", 3)
  /\ ~RoomWithId(Rooms, Id("r", 3))
  /\ storage["chat_rooms"] # <<>>
  /\ \E i \in 1..Len(Messages) : Messages[i].roomId = Id("r", 3)

\* C27: a handler whose unsubscribe function has been called is not in the
\* listeners and, for as long as it is not subscribed again, no delivery
\* invokes it, whenever the delivered event was published; the teardown of
\* ChatApp removes its handler in the same step, the handler is among the
\* listeners only while ChatApp is mounted, and nothing is delivered to a
\* ChatApp that was torn down.
C27_UnsubscribedNotInvoked ==
  [][ /\ \A h \in BusHandlers :
            /\ Unsubscribe(h) => ~InSeq(h, listeners')
            /\ ~InSeq(h, listeners) => received'[h] = received[h]
      /\ (view.mounted /\ ~view'.mounted) => ~InSeq(ChatAppHandler, listeners')
      /\ InSeq(ChatAppHandler, listeners') => view'.mounted
      /\ (~view.mounted /\ ~view'.mounted) => view' = view ]_vars

\* the USER_LEFT of the logout was published while ChatApp and h1 were
\* subscribed; both unsubscribed before its delivery, it has been
\* delivered, and neither was invoked
C27_Witness ==
  /\ ret.op = "logout" /\ ret.n = SettledAtMount + 1
  /\ InSeq(ChatAppHandler, ret.subscribed) /\ InSeq("h1", ret.subscribed)
  /\ listeners = <<>> /\ timers = <<>>
  /\ received["h1"] = <<>>
  /\ view = InitialView([id |-> Null])

\* C28: every delivery hands out the event that was published first among
\* those still pending, and appends it to the log of each handler it
\* invokes; so every handler receives events in the order of their
\* publication, whichever handlers throw, subscribe or unsubscribe.
C28_DeliveredInPublishOrder ==
  [][ (\E i \in 1..Len(timers) : DeliversAt(i))
        => \E i \in 1..Len(timers) :
              /\ DeliversAt(i)
              /\ \A j \in 1..(i-1) : timers[j].kind # "broadcast"
              /\ Pending(timers') = Tail(Pending(timers))
              /\ \A h \in BusHandlers :
                    received'[h] = received[h] \/ Receives(h, timers[i].event) ]_vars

\* a handler has received the ROOM_CREATED of a room and then the
\* ROOM_DELETED of that room, published in that order
C28_Witness ==
  /\ Len(received["h2"]) = 2
  /\ received["h2"][1].type = "ROOM_CREATED"
  /\ received["h2"][2].type = "ROOM_DELETED"
  /\ received["h2"][2].payload.roomId = received["h2"][1].payload.id

\* the step delivers an event of this type to the callback of ChatApp
DeliversToView(i, type) ==
  /\ DeliversAt(i)
  /\ timers[i].event.type = type
  /\ InSeq(ChatAppHandler, listeners)

\* C29: when ROOM_DELETED for room r is delivered to ChatApp, the rooms
\* with id r leave its room list and the others stay in order; if r is the
\* active room the active room becomes null, otherwise the active room is
\* left as it was.
C29_RoomDeletedBootsOut ==
  [][ \A i \in 1..Len(timers) :
        DeliversToView(i, "ROOM_DELETED")
          => LET r == timers[i].event.payload.roomId
             IN  /\ view'.rooms = SelectSeq(view.rooms, LAMBDA room : room.id # r)
                 /\ view'.activeRoomId =
                       IF view.activeRoomId = r THEN Null ELSE view.activeRoomId ]_vars

\* ChatApp was in room r3 when the ROOM_DELETED of r3 was delivered: the
\* room has left the list and the active room is null
C29_Witness ==
  /\ view.activeRoomId = Null /\ view.activeRoomIdRef = Id("r", 3)
  /\ ~RoomWithId(view.rooms, Id("r", 3))
  /\ Len(view.rooms) = Len(INITIAL_ROOMS) - 1
  /\ ret.op = "deleteRoom" /\ timers = <<>>

\* C30: whenever no published event is pending, the active room of ChatApp
\* is null or the id of a room of the rooms collection.
C30_ActiveRoomExists ==
  Pending(timers) = <<>>
    => view.activeRoomId = Null \/ RoomWithId(Rooms, view.activeRoomId)

\* no two elements of s carry the same id
NoRepeatedId(s) == \A i, j \in 1..Len(s) : s[i].id = s[j].id => i = j

\* C31: the message list of ChatApp never holds the same message id twice,
\* and whenever no published event is pending and a room is active it
\* equals getMessages of the active room.
C31_MessagesMatchHistory ==
  /\ NoRepeatedId(view.messages)
  /\ (view.mounted /\ Pending(timers) = <<>> /\ view.activeRoomId # Null)
       => view.messages = getMessages(Messages, view.activeRoomId)

\* C32: the user list of ChatApp never holds the same user id twice, and
\* whenever ChatApp is mounted and no published event is pending its room
\* list equals the rooms collection and holds no room id twice.
C32_ListsMatchStore ==
  /\ NoRepeatedId(view.users)
  /\ (view.mounted /\ Pending(timers) = <<>>)
       => /\ Json(view.rooms) = Json(Rooms)
          /\ NoRepeatedId(view.rooms)

\* C33: when a USER_UPDATE event for the user ChatApp was rendered with is
\* delivered to ChatApp, its callback returns without throwing, the current
\* user becomes the record of the event, and every entry of the user list
\* with that id is that record, of which there is one.
C33_UserUpdateReachesApp ==
  [][ \A i \in 1..Len(timers) :
        (DeliversToView(i, "USER_UPDATE")
           /\ timers[i].event.payload.id = view.currentUser.id)
          => LET user == timers[i].event.payload
             IN  /\ uncaught' = NoThrow
                 /\ view'.currentUser = user
                 /\ InSeq(user, view'.users)
                 /\ \A j \in 1..Len(view'.users) :
                       view'.users[j].id = user.id => view'.users[j] = user ]_vars

====
